---- MODULE Spec2Model ----
(***************************************************************************)
(* A model of main.py of twiscrap_ai: the bounded retry of                 *)
(* fetch_data_with_retry, and the "Scrape and Save" run of the Streamlit   *)
(* script (fetch_latest_topics, the table, save_to_mongodb).               *)
(***************************************************************************)
EXTENDS Integers, Sequences, FiniteSets, TLC

\* ------------------------------------------------------------------ bounds
MaxRetries == 3
MaxBatch == 7
MaxClock == 2
TicksPerSecond == 2

\* ------------------------------------------------------- program constants
DefaultRetries == 3
DefaultDelay == 5
TopN == 5

VARIABLES
    fpc,        \* position of the call of fetch_data_with_retry
    n0,         \* retries passed to the initial call
    retries,    \* retries of the innermost frame
    delay,      \* delay of the call
    outcomes,   \* the outcome of every GET attempt so far, in order
    waits,      \* number of sleep(delay) calls completed
    waited,     \* seconds slept in total
    result,     \* what the call returned
    request,    \* url, proxy_ip, proxy_port passed to the initial call
    frame,      \* url, proxy_ip, proxy_port of the innermost frame
    gets,       \* url and proxies of every requests.get so far, in order
    printed,    \* the lines printed so far, in order
    ppc,        \* position of the script inside the button handler
    batch,      \* what the trend source holds for this run
    topics,     \* what fetch_latest_topics returned
    table,      \* rows of the dataframe shown
    banners,    \* st.error / st.warning / st.success messages, in order
    collection, \* documents inserted into igrosine.topics
    saveCalls,  \* invocations of save_to_mongodb
    saveNow,    \* now of save_to_mongodb
    saveIdx,    \* loop index i of save_to_mongodb
    topicsFault,\* what failed inside fetch_latest_topics, if anything
    saveFault,  \* what failed inside save_to_mongodb, if anything
    clock       \* wall clock, in ticks

fvars == <<fpc, n0, retries, delay, outcomes, waits, waited, result,
          request, frame, gets, printed,
           request, frame, gets, printed>>
pvars == <<ppc, batch, topics, table, banners, collection, saveCalls, saveNow,
           saveIdx, topicsFault, saveFault, clock>>
vars == <<fpc, n0, retries, delay, outcomes, waits, waited, result,
          ppc, batch, topics, table, banners, collection, saveCalls, saveNow,
          saveIdx, topicsFault, saveFault, clock>>

\* ------------------------------------------------- fetch_data_with_retry
\* What the call has returned: nothing yet, None, or the response of attempt k.
NoneValue == [kind |-> "None", attempt |-> 0]
Pending == [kind |-> "pending", attempt |-> 0]

\* Exceptions of the requests library that requests.get can raise.
TransportExcs == {"ConnectionError", "ConnectTimeout", "ReadTimeout",
                  "OtherRequestException"}
Statuses == {200, 404, 503}
Delays == {0, DefaultDelay}

\* What one requests.get does: a response with a status, or an exception.
GetOutcomes ==
    [exc : {"none"}, status : Statuses] \cup [exc : TransportExcs, status : {0}]

\* response.raise_for_status(): HTTPError for 4xx and 5xx.
RaiseForStatus(status) ==
    IF status >= 400 /\ status < 600 THEN "HTTPError" ELSE "none"

\* The exception, if any, the try block of one attempt ends with.
Raised(o) == IF o.exc # "none" THEN o.exc ELSE RaiseForStatus(o.status)

\* isinstance(exc, cls) for the three classes named by the except clauses.
IsInstance(exc, cls) ==
    CASE cls = "ConnectionError" -> exc \in {"ConnectionError", "ConnectTimeout"}
      [] cls = "Timeout" -> exc \in {"ReadTimeout", "ConnectTimeout"}
      [] cls = "RequestException" ->
            exc \in {"HTTPError", "ConnectionError", "ConnectTimeout",
                     "ReadTimeout", "OtherRequestException"}
      [] OTHER -> FALSE

ExceptClauseAllRetry(exc) ==
    IF IsInstance(exc, "RequestException") THEN "ConnectionError" ELSE "uncaught"

ExceptClauseNoLast(exc) ==
    IF IsInstance(exc, "ConnectionError") THEN "ConnectionError"
    ELSE IF IsInstance(exc, "Timeout") THEN "Timeout"
    ELSE "uncaught"

ExceptClauseTimeoutFirst(exc) ==
    IF IsInstance(exc, "Timeout") THEN "Timeout"
    ELSE IF IsInstance(exc, "ConnectionError") THEN "ConnectionError"
    ELSE IF IsInstance(exc, "RequestException") THEN "RequestException"
    ELSE "uncaught"

\* The first except clause, in source order, that catches exc.
ExceptClause(exc) ==
    IF IsInstance(exc, "ConnectionError") THEN "ConnectionError"
    ELSE IF IsInstance(exc, "Timeout") THEN "Timeout"
    ELSE IF IsInstance(exc, "RequestException") THEN "RequestException"
    ELSE "uncaught"

ShouldRetryOffByOne(r) == r > 1

ShouldRetryInclusive(r) == r >= 0

\* if retries > 0
ShouldRetry(r) == r > 0

NextRetriesByTwo(r) == r - 2

\* the retries argument of the recursive call
NextRetries(r) == r - 1

SuccessResultDropped(k) == NoneValue

\* return response, of attempt k
SuccessResult(k) == [kind |-> "response", attempt |-> k]

\* The url, proxy_ip and proxy_port a caller may pass.
FetchArgs ==
    {[url |-> "http://a.example", proxy_ip |-> "10.0.0.1", proxy_port |-> "8080"],
     [url |-> "http://b.example", proxy_ip |-> "10.0.0.2", proxy_port |-> "3128"]}
NoArgs == [url |-> "", proxy_ip |-> "", proxy_port |-> ""]

\* proxies = {"http": f"http://{proxy_ip}:{proxy_port}", "https": ...}
Proxies(proxy_ip, proxy_port) ==
    [http |-> <<"http://", proxy_ip, ":", proxy_port>>,
     https |-> <<"https://", proxy_ip, ":", proxy_port>>]

\* requests.get(url, proxies=proxies), as called by the frame f
GetArgs(f) == [url |-> f.url, proxies |-> Proxies(f.proxy_ip, f.proxy_port)]

RecursiveArgsSwapped(f) ==
    [url |-> f.url, proxy_ip |-> f.proxy_port, proxy_port |-> f.proxy_ip]

\* fetch_data_with_retry(url, proxy_ip, proxy_port, ...) of the recursive call
RecursiveArgs(f) == [url |-> f.url, proxy_ip |-> f.proxy_ip, proxy_port |-> f.proxy_port]

\* The lines an except clause prints when it runs with r retries left.
PrintedBy(clause, r) ==
    CASE clause = "ConnectionError" ->
            IF ShouldRetry(r)
            THEN <<"Connection error occurred", "Retrying in delay seconds...">>
            ELSE <<"Connection error occurred",
                   "Max retries reached. Could not establish a connection.">>
      [] clause = "Timeout" ->
            IF ShouldRetry(r)
            THEN <<"Request timed out. Retrying...">>
            ELSE <<"Request timed out. Retrying...",
                   "Max retries reached. Timeout error.">>
      [] clause = "RequestException" -> <<"Request error occurred">>
      [] OTHER -> <<>>

\* fetch_data_with_retry(url, proxy_ip, proxy_port, retries=n, delay=d)
Call ==
    /\ fpc = "idle"
    /\ ppc = "idle"
    /\ \E n \in 0..MaxRetries, d \in Delays :
          /\ n0' = n
          /\ retries' = n
          /\ delay' = d
    /\ \E a \in FetchArgs :
          /\ request' = a
          /\ frame' = a
    /\ fpc' = "get"
    /\ UNCHANGED <<outcomes, waits, waited, result, gets, printed>>
    /\ UNCHANGED pvars

\* One run of the try block and of the except clause it ends in, up to the
\* sleep or the return.
Attempt ==
    /\ fpc = "get"
    /\ \E o \in GetOutcomes :
          /\ outcomes' = Append(outcomes, o)
          /\ gets' = Append(gets, GetArgs(frame))
          /\ LET exc == Raised(o)
                 clause == IF exc = "none" THEN "none" ELSE ExceptClause(exc)
             IN /\ printed' = printed \o PrintedBy(clause, retries)
                /\ CASE clause = "none" ->
                           /\ result' = SuccessResult(Len(outcomes) + 1)
                           /\ fpc' = "done"
                     [] clause \in {"ConnectionError", "Timeout"} ->
                           IF ShouldRetry(retries)
                           THEN /\ fpc' = "sleep"
                                /\ UNCHANGED result
                           ELSE /\ result' = NoneValue
                                /\ fpc' = "done"
                     [] clause = "RequestException" ->
                           /\ result' = NoneValue
                           /\ fpc' = "done"
                     [] OTHER ->
                           /\ fpc' = "raised"
                           /\ UNCHANGED result
    /\ UNCHANGED <<n0, retries, delay, waits, waited, request, frame>>
    /\ UNCHANGED pvars

\* sleep(delay), then the recursive call with retries - 1.
Sleep ==
    /\ fpc = "sleep"
    /\ waits' = waits + 1
    /\ waited' = waited + delay
    /\ retries' = NextRetries(retries)
    /\ frame' = RecursiveArgs(frame)
    /\ fpc' = "get"
    /\ UNCHANGED <<n0, delay, outcomes, result, request, gets, printed>>
    /\ UNCHANGED pvars

FetchNext == Call \/ Attempt \/ Sleep

\* ------------------------------------------------- the Scrape and Save run
Min(a, b) == IF a < b THEN a ELSE b

\* A record of the dataset: a name, or no "name" key.
Topic(k, nameless) == [hasName |-> k # nameless, name |-> k]

\* The batches the trend source may hold: m records, at most one nameless.
Batches ==
    {[k \in 1..m |-> Topic(k, nameless)] : m \in 0..MaxBatch, nameless \in 0..1}

TopSliceAll(s) == s

\* s[:5]
TopSlice(s) == SubSeq(s, 1, Min(Len(s), TopN))

\* now.strftime('%Y%m%d%H%M%S'): the clock cut to whole seconds.
StrfTime(t) == t \div TicksPerSecond

UniqueIdZeroBased(now, i) == [stamp |-> StrfTime(now), ordinal |-> i - 1]

\* f"{now.strftime('%Y%m%d%H%M%S')}_{i}"
UniqueId(now, i) == [stamp |-> StrfTime(now), ordinal |-> i]

\* topic.get("name", f"Trend {i}")
TopicName(topic, i) ==
    IF topic.hasName THEN <<"name", topic.name>> ELSE <<"Trend", i>>

\* proxy_ip+":"+proxy_port
ProxyAddress == <<"proxy_ip", "proxy_port">>

\* One entry of data_for_display.
DisplayRow(now, i, topic) ==
    [ID |-> UniqueId(now, i), NAME |-> TopicName(topic, i),
     DATE |-> StrfTime(now), PROXY |-> ProxyAddress]

\* One document of the insert loop.
Document(now, i, topic) ==
    [unique_id |-> UniqueId(now, i), name_of_trend |-> TopicName(topic, i),
     date_time_of_script_completion |-> StrfTime(now),
     ip_address_used |-> ProxyAddress]

TopicsTryCoversActorOnly(site) == site = "actor_call"

\* The statements inside the try of fetch_latest_topics.
TopicsTryCovers(site) == site \in {"actor_call", "dataset"}

SaveTryCoversInsertOnly(site) == site = "insert"

SaveTryCoversConnectOnly(site) == site = "connect"

\* The statements inside the try of save_to_mongodb.
SaveTryCovers(site) == site \in {"connect", "insert"}

\* st.button("Scrape and Save") is pressed.
Click ==
    /\ ppc = "idle"
    /\ fpc \in {"idle", "done", "raised"}
    /\ \E b \in Batches : batch' = b
    /\ ppc' = "fetch_topics"
    /\ UNCHANGED <<topics, table, banners, collection, saveCalls, saveNow,
                   saveIdx, topicsFault, saveFault, clock>>
    /\ UNCHANGED fvars

\* topics = fetch_latest_topics(proxy_ip, proxy_port)
FetchLatestTopics ==
    /\ ppc = "fetch_topics"
    /\ \E fault \in {"none", "actor_call", "dataset"} :
          /\ topicsFault' = fault
          /\ IF fault = "none"
             THEN /\ topics' = batch
                  /\ ppc' = "branch"
                  /\ UNCHANGED banners
             ELSE IF TopicsTryCovers(fault)
             THEN /\ topics' = <<>>
                  /\ banners' = Append(banners, "Error fetching topics")
                  /\ ppc' = "branch"
             ELSE /\ ppc' = "crashed"
                  /\ UNCHANGED <<topics, banners>>
    /\ UNCHANGED <<batch, table, collection, saveCalls, saveNow, saveIdx,
                   saveFault, clock>>
    /\ UNCHANGED fvars

\* if topics: slice, build data_for_display, st.dataframe(df)
Render ==
    /\ ppc = "branch"
    /\ topics # <<>>
    /\ LET top_5_topics == TopSlice(topics)
       IN table' = [i \in 1..Len(top_5_topics) |->
                        DisplayRow(clock, i, top_5_topics[i])]
    /\ ppc' = "save"
    /\ UNCHANGED <<batch, topics, banners, collection, saveCalls, saveNow,
                   saveIdx, topicsFault, saveFault, clock>>
    /\ UNCHANGED fvars

\* else: st.warning("No topics found.")
Warn ==
    /\ ppc = "branch"
    /\ topics = <<>>
    /\ banners' = Append(banners, "No topics found")
    /\ ppc' = "end"
    /\ UNCHANGED <<batch, topics, table, collection, saveCalls, saveNow,
                   saveIdx, topicsFault, saveFault, clock>>
    /\ UNCHANGED fvars

\* The argument of save_to_mongodb, and the slice its loop runs over.
SaveData == TopSlice(TopSlice(topics))

\* save_to_mongodb is entered: MongoClient, db, collection, now.
SaveBegin ==
    /\ ppc = "save"
    /\ saveCalls' = saveCalls + 1
    /\ \E ok \in BOOLEAN :
          IF ok
          THEN /\ saveNow' = clock
               /\ saveIdx' = 1
               /\ ppc' = "insert"
               /\ UNCHANGED <<banners, saveFault>>
          ELSE /\ saveFault' = "connect"
               /\ IF SaveTryCovers("connect")
                  THEN /\ banners' = Append(banners, "Error saving to MongoDB")
                       /\ ppc' = "end"
                  ELSE /\ ppc' = "crashed"
                       /\ UNCHANGED banners
               /\ UNCHANGED <<saveNow, saveIdx>>
    /\ UNCHANGED <<batch, topics, table, collection, topicsFault, clock>>
    /\ UNCHANGED fvars

\* One iteration of the loop: collection.insert_one(document).
InsertOne ==
    /\ ppc = "insert"
    /\ saveIdx <= Len(SaveData)
    /\ \E ok \in BOOLEAN :
          IF ok
          THEN /\ collection' =
                    Append(collection, Document(saveNow, saveIdx, SaveData[saveIdx]))
               /\ saveIdx' = saveIdx + 1
               /\ UNCHANGED <<ppc, banners, saveFault>>
          ELSE /\ saveFault' = "insert"
               /\ IF SaveTryCovers("insert")
                  THEN /\ banners' = Append(banners, "Error saving to MongoDB")
                       /\ ppc' = "end"
                  ELSE /\ ppc' = "crashed"
                       /\ UNCHANGED banners
               /\ UNCHANGED <<collection, saveIdx>>
    /\ UNCHANGED <<batch, topics, table, saveCalls, saveNow, topicsFault, clock>>
    /\ UNCHANGED fvars

\* The loop is over: st.success(...)
SaveSuccess ==
    /\ ppc = "insert"
    /\ saveIdx > Len(SaveData)
    /\ banners' = Append(banners, "Results successfully saved to MongoDB!")
    /\ ppc' = "end"
    /\ UNCHANGED <<batch, topics, table, collection, saveCalls, saveNow,
                   saveIdx, topicsFault, saveFault, clock>>
    /\ UNCHANGED fvars

\* Time passes while the run is under way.
Tick ==
    /\ ppc \in {"branch", "save"}
    /\ clock < MaxClock
    /\ clock' = clock + 1
    /\ UNCHANGED <<ppc, batch, topics, table, banners, collection, saveCalls,
                   saveNow, saveIdx, topicsFault, saveFault>>
    /\ UNCHANGED fvars

PipeNext ==
    \/ Click
    \/ FetchLatestTopics
    \/ Render
    \/ Warn
    \/ SaveBegin
    \/ InsertOne
    \/ SaveSuccess
    \/ Tick

Next == FetchNext \/ PipeNext

Init ==
    /\ fpc = "idle"
    /\ n0 = 0
    /\ retries = 0
    /\ delay = 0
    /\ outcomes = <<>>
    /\ waits = 0
    /\ waited = 0
    /\ result = Pending
    /\ request = NoArgs
    /\ frame = NoArgs
    /\ gets = <<>>
    /\ printed = <<>>
    /\ ppc = "idle"
    /\ batch = <<>>
    /\ topics = <<>>
    /\ table = <<>>
    /\ banners = <<>>
    /\ collection = <<>>
    /\ saveCalls = 0
    /\ saveNow = 0
    /\ saveIdx = 0
    /\ topicsFault = "none"
    /\ saveFault = "none"
    /\ clock = 0

FetchSpec == Init /\ [][FetchNext]_vars

\* The same call when every GET and every sleep that is begun completes.
FairFetchSpec ==
    Init /\ [][FetchNext]_vars /\ WF_vars(Attempt) /\ WF_vars(Sleep)

PipeSpec == Init /\ [][PipeNext]_vars

Spec == Init /\ [][Next]_vars

\* ------------------------------------------------------------------ claims
\* The kinds of failure the claims speak of, read off the outcome itself.
ConnOrTimeout(o) == o.exc \in {"ConnectionError", "ConnectTimeout", "ReadTimeout"}
BadStatus(o) == o.exc = "none" /\ o.status >= 400
OtherError(o) == o.exc = "OtherRequestException"
GoodResponse(o) == o.exc = "none" /\ o.status < 400
AllConnOrTimeout(s) == \A k \in 1..Len(s) : ConnOrTimeout(s[k])
Front(s) == SubSeq(s, 1, Len(s) - 1)
Last(s) == s[Len(s)]

\* C1: a call with budget n whose every attempt fails with a connection error
\* or a timeout makes exactly n + 1 GET attempts, sleeps exactly n times
\* (n * delay seconds) and returns None; it raises nothing and never makes
\* more than n + 1 attempts.
C1_ExhaustedAfterNPlusOne ==
    (outcomes # <<>> /\ AllConnOrTimeout(outcomes)) =>
        /\ fpc \in {"sleep", "get", "done"}
        /\ Len(outcomes) <= n0 + 1
        /\ fpc = "done" =>
              /\ Len(outcomes) = n0 + 1
              /\ waits = n0
              /\ waited = n0 * delay
              /\ result = NoneValue

C1_Witness ==
    /\ fpc = "done"
    /\ n0 = 3
    /\ delay = DefaultDelay
    /\ Len(outcomes) = 4
    /\ AllConnOrTimeout(outcomes)
    /\ waited = 15

\* C2: a call whose first attempt ends in a bad status or in a request error
\* that is neither a connection error nor a timeout makes exactly one attempt,
\* never sleeps and returns None, whatever the budget.
C2_NonRetryableOnce ==
    (outcomes # <<>> /\ (BadStatus(outcomes[1]) \/ OtherError(outcomes[1]))) =>
        /\ fpc = "done"
        /\ Len(outcomes) = 1
        /\ waits = 0
        /\ waited = 0
        /\ result = NoneValue

C2_Witness ==
    /\ fpc = "done"
    /\ n0 = 3
    /\ Len(outcomes) = 1
    /\ outcomes[1] = [exc |-> "none", status |-> 503]
    /\ result = NoneValue

\* C3: when attempts 1..k-1 fail with connection errors or timeouts and
\* attempt k succeeds, k <= n + 1, the call has made exactly k attempts and
\* returns the response of attempt k, not None.
C3_SuccessState ==
    (/\ outcomes # <<>>
     /\ GoodResponse(Last(outcomes))
     /\ AllConnOrTimeout(Front(outcomes))) =>
        /\ fpc = "done"
        /\ Len(outcomes) <= n0 + 1
        /\ waits = Len(outcomes) - 1
        /\ result = [kind |-> "response", attempt |-> Len(outcomes)]
        /\ result # NoneValue

\* C3, continued: no attempt and no sleep follows the return.
C3_SuccessAtK ==
    /\ []C3_SuccessState
    /\ [][fpc = "done" =>
            /\ fpc' = "done"
            /\ outcomes' = outcomes
            /\ waits' = waits
            /\ result' = result]_vars

C3_Witness ==
    /\ fpc = "done"
    /\ n0 = 3
    /\ Len(outcomes) = 4
    /\ AllConnOrTimeout(Front(outcomes))
    /\ GoodResponse(Last(outcomes))
    /\ result = [kind |-> "response", attempt |-> 4]

C7_BudgetInRange ==
    /\ retries \in 0..n0
    /\ retries = n0 - waits

\* C7: the budget stays in 0..n; each retry lowers it by exactly 1 and
\* nothing else changes it; with the budget at 0 a connection error or a
\* timeout starts no new attempt but ends the call with None.
C7_BudgetDecreases ==
    /\ []C7_BudgetInRange
    /\ [][fpc = "sleep" => (retries' = retries - 1 /\ fpc' = "get")]_vars
    /\ [][(fpc # "idle" /\ retries' # retries) => fpc = "sleep"]_vars
    /\ [][(/\ fpc = "get"
           /\ retries = 0
           /\ Len(outcomes') = Len(outcomes) + 1
           /\ ConnOrTimeout(Last(outcomes'))) =>
             (fpc' = "done" /\ result' = NoneValue)]_vars

C7_Witness ==
    /\ fpc = "done"
    /\ n0 = 3
    /\ retries = 0
    /\ waits = 3
    /\ ConnOrTimeout(Last(outcomes))
    /\ result = NoneValue

Shown(msg) == \E k \in 1..Len(banners) : banners[k] = msg
ErrFetch == "Error fetching topics"
ErrSave == "Error saving to MongoDB"
WarnNone == "No topics found"
Saved == "Results successfully saved to MongoDB!"

\* The steps of the button handler, the clock left aside.
PipeStep ==
    FetchLatestTopics \/ Render \/ Warn \/ SaveBegin \/ InsertOne \/ SaveSuccess

\* C4 as stated: every run that got m records displays min(m, 5) rows and
\* persists min(m, 5) documents; with m = 0 the warning is shown and
\* save_to_mongodb is not invoked.
C4_AsStated ==
    ppc = "end" =>
        /\ Len(table) = Min(Len(topics), 5)
        /\ Len(collection) = Min(Len(topics), 5)
        /\ Len(topics) = 0 => (Shown(WarnNone) /\ saveCalls = 0)

\* C4, amended: every run that got m records displays exactly min(m, 5) rows;
\* it persists exactly min(m, 5) documents when the connection and every
\* insert succeed and fewer when one of them fails; with m = 0 the warning is
\* shown and save_to_mongodb is not invoked, with m > 0 it is invoked once.
C4_TopFiveUnlessSaveFails ==
    /\ Len(collection) <= Min(Len(topics), 5)
    /\ Len(table) \in {0, Min(Len(topics), 5)}
    /\ ppc = "end" =>
          /\ Len(table) = Min(Len(topics), 5)
          /\ saveFault = "none" => Len(collection) = Min(Len(topics), 5)
          /\ saveFault # "none" => Len(collection) < Min(Len(topics), 5)
          /\ Len(topics) = 0 =>
                (Shown(WarnNone) /\ saveCalls = 0 /\ collection = <<>>)
          /\ Len(topics) > 0 => (~Shown(WarnNone) /\ saveCalls = 1)

C4_Witness ==
    /\ ppc = "end"
    /\ Len(topics) = 7
    /\ Len(table) = 5
    /\ Len(collection) = 5
    /\ saveCalls = 1

\* C5: the documents one invocation of save_to_mongodb inserts are, in
\* insertion order, those of the batch in batch order, the k-th with
\* unique_id <stamp>_k where stamp is the one timestamp of the invocation;
\* there are never more than min(m, 5) of them and exactly min(m, 5) once
\* the invocation has reported success.
C5_OrdinalsInOrder ==
    /\ \A k \in 1..Len(collection) :
          /\ k <= Min(Len(topics), 5)
          /\ collection[k].unique_id = [stamp |-> saveNow \div TicksPerSecond,
                                        ordinal |-> k]
          /\ collection[k].name_of_trend = TopicName(topics[k], k)
    /\ Shown(Saved) => Len(collection) = Min(Len(topics), 5)

C5_Witness ==
    /\ ppc = "end"
    /\ Len(topics) = 3
    /\ Shown(Saved)
    /\ Len(collection) = 3
    /\ collection[3].unique_id.ordinal = 3
    /\ saveNow >= TicksPerSecond

\* C8: when the actor call or the dataset retrieval fails, the error is
\* shown, fetch_latest_topics returns the empty list and raises nothing, and
\* the run ends with "No topics found", no row and no call of
\* save_to_mongodb.
C8_TopicsFailureIsEmpty ==
    topicsFault # "none" =>
        /\ ppc \in {"branch", "end"}
        /\ Shown(ErrFetch)
        /\ topics = <<>>
        /\ table = <<>>
        /\ saveCalls = 0
        /\ collection = <<>>
        /\ ppc = "branch" => ENABLED Warn
        /\ ppc = "end" => banners = <<ErrFetch, WarnNone>>

C8_Witness ==
    /\ topicsFault = "dataset"
    /\ Len(batch) = 7
    /\ ppc = "end"
    /\ banners = <<ErrFetch, WarnNone>>

\* C9: whatever fails in a run (the trend source, the database connection,
\* an insert), the script does not stop on an unhandled exception: the
\* failure is shown as a message, and the run goes on to its end.
C9_NoUnhandledFault ==
    /\ ppc # "crashed"
    /\ topicsFault # "none" => (Shown(ErrFetch) /\ topics = <<>>)
    /\ saveFault # "none" => (Shown(ErrSave) /\ ppc = "end")
    /\ ppc \notin {"idle", "end"} => ENABLED PipeStep

C9_Witness ==
    /\ saveFault = "insert"
    /\ ppc = "end"
    /\ Len(collection) = 2
    /\ Shown(ErrSave)

\* The scenario of C10: retries = 3, delay = 5, every GET times out, and the
\* trend source holds 7 records.
AllTimeouts(s) == \A k \in 1..Len(s) : s[k].exc \in {"ReadTimeout", "ConnectTimeout"}
TimeoutFetchOver ==
    /\ fpc = "done"
    /\ n0 = DefaultRetries
    /\ delay = DefaultDelay
    /\ outcomes # <<>>
    /\ AllTimeouts(outcomes)
TimeoutScenarioOver == TimeoutFetchOver /\ Len(batch) = 7 /\ ppc = "end"

\* C10 as stated: in the scenario the fetch returns None after exactly 4
\* attempts and the run shows "No topics found", no row, and persists nothing.
C10_AsStated ==
    TimeoutScenarioOver =>
        /\ Len(outcomes) = 4
        /\ result = NoneValue
        /\ Shown(WarnNone)
        /\ table = <<>>
        /\ collection = <<>>

\* C10, amended: in the scenario the fetch returns None after exactly 4
\* attempts and 3 sleeps of 5 s; the run does not depend on it: it shows
\* "No topics found", no row and persists nothing exactly when
\* fetch_latest_topics itself failed, and otherwise shows 5 rows and calls
\* save_to_mongodb once.
C10_FetchFailsRunUnaffected ==
    /\ TimeoutFetchOver =>
          /\ Len(outcomes) = 4
          /\ result = NoneValue
          /\ waits = 3
          /\ waited = 15
    /\ TimeoutScenarioOver =>
          /\ topics = <<>> <=> topicsFault # "none"
          /\ Shown(WarnNone) <=> topics = <<>>
          /\ topics = <<>> => (table = <<>> /\ collection = <<>> /\ saveCalls = 0)
          /\ topics # <<>> => (Len(table) = 5 /\ saveCalls = 1)

C10_Witness ==
    /\ TimeoutScenarioOver
    /\ Len(outcomes) = 4
    /\ topicsFault = "actor_call"
    /\ Shown(WarnNone)

\* C12: the counts that strict alternation leaves: before attempt k there
\* have been k - 1 sleeps; the sleeps are one fewer than the attempts once an
\* attempt is over; the time slept is waits * delay, at most retries * delay.
C12_AlternationState ==
    /\ fpc = "get" => waits = Len(outcomes)
    /\ fpc \in {"sleep", "done", "raised"} => waits = Len(outcomes) - 1
    /\ fpc = "idle" => (waits = 0 /\ outcomes = <<>>)
    /\ waited = waits * delay
    /\ waits <= n0
    /\ waited <= n0 * delay

\* C12: sleeps and attempts alternate: no sleep before the first attempt; an
\* attempt is made only straight after the call or after a sleep; a sleep is
\* one sleep of delay, follows a failed attempt and is followed by an
\* attempt; no sleep follows the last attempt.
C12_WaitsAlternate ==
    /\ []C12_AlternationState
    /\ [][Len(outcomes') # Len(outcomes) =>
            /\ Len(outcomes') = Len(outcomes) + 1
            /\ fpc = "get"
            /\ waits' = waits
            /\ fpc' # "get"]_vars
    /\ [][waits' # waits =>
            /\ waits' = waits + 1
            /\ waited' = waited + delay
            /\ outcomes' = outcomes
            /\ fpc = "sleep"
            /\ fpc' = "get"]_vars
    /\ [][(fpc \in {"done", "raised"}) =>
            (waits' = waits /\ waited' = waited)]_vars

C12_Witness ==
    /\ fpc = "done"
    /\ n0 = 3
    /\ delay = DefaultDelay
    /\ Len(outcomes) = 4
    /\ waits = 3
    /\ waited = 15
    /\ GoodResponse(Last(outcomes))

\* C13: if every GET and every sleep completes, a call that has started ends:
\* it returns a response (Success) or None (Failed), whatever the attempts
\* do; after that no attempt and no sleep is made.
C13_Terminates ==
    /\ (fpc \in {"get", "sleep"}) ~>
          (fpc = "done" /\ result.kind \in {"response", "None"})
    /\ [][fpc = "done" =>
            /\ fpc' = "done"
            /\ outcomes' = outcomes
            /\ waits' = waits
            /\ result' = result]_vars

C13_Witness ==
    /\ fpc = "done"
    /\ n0 = 3
    /\ Len(outcomes) = 3
    /\ ConnOrTimeout(outcomes[1])
    /\ ConnOrTimeout(outcomes[2])
    /\ BadStatus(outcomes[3])
    /\ result = NoneValue

\* C15: connection errors and timeouts draw on one budget: in any order and
\* mix, the attempts that ended in either are at most n + 1 in total, and so
\* are the attempts altogether; a call that only met such failures is over
\* after exactly n + 1 attempts.
C15_SharedBudget ==
    /\ Cardinality({k \in 1..Len(outcomes) : ConnOrTimeout(outcomes[k])}) <= n0 + 1
    /\ Len(outcomes) <= n0 + 1
    /\ waits <= n0
    /\ (fpc = "done" /\ outcomes # <<>> /\ AllConnOrTimeout(outcomes)) =>
          Len(outcomes) = n0 + 1

C15_Witness ==
    /\ fpc = "done"
    /\ n0 = 3
    /\ Len(outcomes) = 4
    /\ outcomes[1].exc = "ConnectionError"
    /\ outcomes[2].exc = "ReadTimeout"
    /\ outcomes[3].exc = "ConnectionError"
    /\ outcomes[4].exc = "ReadTimeout"
    /\ result = NoneValue

\* C16: in a run with a non-empty batch the ID of row i of the table is the
\* unique_id of the i-th document persisted in that run.
C16_DisplayedIdIsPersistedId ==
    \A i \in 1..Len(collection) :
        /\ i <= Len(table)
        /\ table[i].ID = collection[i].unique_id

\* C17: the documents inserted so far carry the ordinals 1..j, j at most
\* min(m, 5); after a failed insert the error is shown, the success message
\* is not, and the run has left the loop; the success message is shown only
\* when all min(m, 5) inserts succeeded.
C17_PrefixState ==
    /\ \A k \in 1..Len(collection) : collection[k].unique_id.ordinal = k
    /\ Len(collection) <= Min(Len(topics), 5)
    /\ ppc = "insert" => Len(collection) = saveIdx - 1
    /\ saveFault = "insert" =>
          /\ ppc = "end"
          /\ Shown(ErrSave)
          /\ ~Shown(Saved)
          /\ Len(collection) = saveIdx - 1
          /\ Len(collection) < Min(Len(topics), 5)
    /\ Shown(Saved) =>
          /\ saveFault = "none"
          /\ Len(collection) = Min(Len(topics), 5)

\* C17: the inserted ordinals are a prefix 1..j of 1..min(m, 5); the
\* collection only grows, one document at the end at a time; when insert
\* j + 1 fails documents 1..j stay and no insert is made afterwards.
C17_PrefixNoRollback ==
    /\ []C17_PrefixState
    /\ [][collection' # collection =>
            /\ Len(collection') = Len(collection) + 1
            /\ SubSeq(collection', 1, Len(collection)) = collection
            /\ saveFault = "none"]_vars
    /\ [][saveFault' = "insert" => collection' = collection]_vars

C17_Witness ==
    /\ saveFault = "insert"
    /\ ppc = "end"
    /\ Len(topics) = 7
    /\ Len(collection) = 2
    /\ collection[2].unique_id.ordinal = 2
    /\ ~Shown(Saved)

\* The failure kind the data model of the spec would tag a failure with.
FailureKind(o) ==
    IF o.exc \in {"ConnectionError", "ConnectTimeout"} THEN "connection-refused"
    ELSE IF o.exc = "ReadTimeout" THEN "timed-out"
    ELSE "other-request-error"
FetchFailed == fpc = "done" /\ outcomes # <<>> /\ ~GoodResponse(Last(outcomes))

\* C11 as stated: a fetch that ends in terminal failure returns an outcome
\* tagged with its failure kind (connection-refused, timed-out or
\* other-request-error).
C11_AsStated == FetchFailed => result.kind = FailureKind(Last(outcomes))

\* C11, amended: a fetch that ends in terminal failure returns the one
\* untagged sentinel None whatever the failure kind; the kind shows only in
\* the last line printed: the connection message when the last exception is
\* a ConnectionError (a ConnectTimeout included), the timeout message when it
\* is another Timeout, the request-error message otherwise.
C11_FailureIsUntaggedNone ==
    FetchFailed =>
        /\ result = NoneValue
        /\ printed # <<>>
        /\ Last(printed) =
              (IF Last(outcomes).exc \in {"ConnectionError", "ConnectTimeout"}
               THEN "Max retries reached. Could not establish a connection."
               ELSE IF Last(outcomes).exc = "ReadTimeout"
               THEN "Max retries reached. Timeout error."
               ELSE "Request error occurred")

C11_Witness ==
    /\ FetchFailed
    /\ n0 = 3
    /\ Len(outcomes) = 4
    /\ outcomes[1].exc = "ConnectionError"
    /\ Last(outcomes).exc = "ReadTimeout"
    /\ result = NoneValue
    /\ Last(printed) = "Max retries reached. Timeout error."

\* C14: every requests.get of a call uses the url and the proxies built
\* from the proxy_ip and proxy_port of the initial call, and the frame in
\* charge holds those arguments.
C14_SameArgsState ==
    fpc # "idle" =>
        /\ request \in FetchArgs
        /\ frame = request
        /\ Len(gets) = Len(outcomes)
        /\ \A k \in 1..Len(gets) :
              /\ gets[k].url = request.url
              /\ gets[k].proxies.http =
                    <<"http://", request.proxy_ip, ":", request.proxy_port>>
              /\ gets[k].proxies.https =
                    <<"https://", request.proxy_ip, ":", request.proxy_port>>
        /\ waited = waits * delay

\* C14: across the attempts of one call the url, the proxy host, the proxy
\* port and the delay are those of the initial call; a retry changes the
\* remaining budget and none of them.
C14_RetryKeepsArgs ==
    /\ []C14_SameArgsState
    /\ [][fpc # "idle" => (request' = request /\ delay' = delay /\ n0' = n0)]_vars
    /\ [][(fpc = "sleep" /\ fpc' = "get") =>
            /\ frame' = frame
            /\ delay' = delay
            /\ retries' # retries]_vars

C14_Witness ==
    /\ fpc = "done"
    /\ n0 = 3
    /\ Len(gets) = 4
    /\ request.url = "http://b.example"
    /\ gets[4].url = "http://b.example"
    /\ gets[4].proxies.https = <<"https://", "10.0.0.2", ":", "3128">>
    /\ delay = DefaultDelay
    /\ waited = 15

====
